---- MODULE Spec2Model ----
(***************************************************************************)
(* A model of github.com/nochso/humanlog: the Handler that renders one     *)
(* apex/log entry per call into an aligned line, its per-field statistics, *)
(* the alignment classifier and the Duration formatter.                    *)
(*                                                                         *)
(* Strings are sequences of one-character strings, so that formatting,     *)
(* widths, comparison and the regular expression are computed and not      *)
(* assumed.  The micro sign is the single character "mu".                  *)
(***************************************************************************)
EXTENDS Integers, Sequences, FiniteSets, TLC

VARIABLES version, mu, lengths, buf, sink, pc, entry, names, idx, ret,
          ncalls, obs, rendered, rightSeen, order, other, probe

vars == <<version, mu, lengths, buf, sink, pc, entry, names, idx, ret,
          ncalls, obs, rendered, rightSeen, order, other, probe>>

---------------------------------------------------------------------------
(* Characters and strings *)

Digits == <<"0", "1", "2", "3", "4", "5", "6", "7", "8", "9">>

Digit == {Digits[i] : i \in 1..10}

Lower == {"a", "b", "c", "d", "e", "f", "g", "h", "i", "j", "k", "l", "m",
          "n", "o", "p", "q", "r", "s", "t", "u", "v", "w", "x", "y", "z"}

Upper == {"A", "B", "C", "D", "E", "F", "G", "H", "I", "J", "K", "L", "M",
          "N", "O", "P", "Q", "R", "S", "T", "U", "V", "W", "X", "Y", "Z"}

\* The characters of the model in ascending byte order (strings.Compare
\* compares bytes).  "mu" stands for U+00B5 (micro sign), "long_s" for
\* U+017F and "kelvin" for U+212A; their UTF-8 encodings start with C2, C5
\* and E2, above every ASCII byte.
Alphabet == <<" ", "(", ")", "+", "-", ".",
              "0", "1", "2", "3", "4", "5", "6", "7", "8", "9",
              "A", "B", "C", "D", "E", "F", "G", "H", "I", "J", "K", "L", "M",
              "N", "O", "P", "Q", "R", "S", "T", "U", "V", "W", "X", "Y", "Z",
              "[", "]",
              "a", "b", "c", "d", "e", "f", "g", "h", "i", "j", "k", "l", "m",
              "n", "o", "p", "q", "r", "s", "t", "u", "v", "w", "x", "y", "z",
              "mu", "long_s", "kelvin">>

\* The UTF-8 bytes of a character.
Utf8(c) ==
    IF c = "mu" THEN <<194, 181>>
    ELSE IF c = "long_s" THEN <<197, 191>>
    ELSE IF c = "kelvin" THEN <<226, 132, 170>>
    ELSE IF c \in Digit THEN <<47 + CHOOSE i \in 1..10 : Digits[i] = c>>
    ELSE IF c \in Upper THEN <<48 + CHOOSE i \in 17..42 : Alphabet[i] = c>>
    ELSE IF c \in Lower THEN <<52 + CHOOSE i \in 45..70 : Alphabet[i] = c>>
    ELSE IF c = " " THEN <<32>>
    ELSE IF c = "(" THEN <<40>>
    ELSE IF c = ")" THEN <<41>>
    ELSE IF c = "+" THEN <<43>>
    ELSE IF c = "-" THEN <<45>>
    ELSE IF c = "." THEN <<46>>
    ELSE IF c = "[" THEN <<91>>
    ELSE <<93>>

RECURSIVE Bytes(_)
Bytes(s) == IF s = <<>> THEN <<>> ELSE Utf8(Head(s)) \o Bytes(Tail(s))

Ord(c) == CHOOSE i \in 1..Len(Alphabet) : Alphabet[i] = c

\* strings.Compare(a, b) == -1
RECURSIVE StrLess(_, _)
StrLess(a, b) ==
    IF b = <<>> THEN FALSE
    ELSE IF a = <<>> THEN TRUE
    ELSE IF Head(a) # Head(b) THEN Ord(Head(a)) < Ord(Head(b))
    ELSE StrLess(Tail(a), Tail(b))

\* fmt's %d of an integer
RECURSIVE FmtNat(_)
FmtNat(n) ==
    IF n < 10 THEN <<Digits[n + 1]>>
    ELSE FmtNat(n \div 10) \o <<Digits[(n % 10) + 1]>>

FmtInt(n) == IF n < 0 THEN <<"-">> \o FmtNat(0 - n) ELSE FmtNat(n)

RECURSIVE Pow10(_)
Pow10(k) == IF k = 0 THEN 1 ELSE 10 * Pow10(k - 1)

RECURSIVE StripZeros(_)
StripZeros(s) ==
    IF s # <<>> /\ s[Len(s)] = "0" THEN StripZeros(SubSeq(s, 1, Len(s) - 1))
    ELSE s

\* The digits of n written with exactly k digits (leading zeros kept).
RECURSIVE FmtFixed(_, _)
FmtFixed(n, k) ==
    IF k = 0 THEN <<>>
    ELSE FmtFixed(n \div 10, k - 1) \o <<Digits[(n % 10) + 1]>>

\* runewidth.StringWidth for the characters of the model: every one of
\* them, the micro sign included, is one column wide.
StringWidth(s) == Len(s)

---------------------------------------------------------------------------
(* Field values.  A value carries its dynamic Go type t; n, m and s hold    *)
(* its content: an integer n; a float of n tenths; a complex n + m i; a     *)
(* time.Duration of m seconds and n nanoseconds (m * 10^9 + n ns, kept as   *)
(* a pair because a count of nanoseconds does not fit TLC's integers);      *)
(* the characters s of a string or []byte; a bool n # 0.                    *)

IntVal(k) == [t |-> "int", n |-> k, m |-> 0, s |-> <<>>]
UintVal(k) == [t |-> "uint", n |-> k, m |-> 0, s |-> <<>>]
FloatVal(tenths) == [t |-> "float64", n |-> tenths, m |-> 0, s |-> <<>>]
ComplexVal(re, im) == [t |-> "complex128", n |-> re, m |-> im, s |-> <<>>]
DurVal(secs, nanos) == [t |-> "duration", n |-> nanos, m |-> secs, s |-> <<>>]
StrVal(str) == [t |-> "string", n |-> 0, m |-> 0, s |-> str]
BytesVal(str) == [t |-> "bytes", n |-> 0, m |-> 0, s |-> str]
BoolVal(b) == [t |-> "bool", n |-> IF b THEN 1 ELSE 0, m |-> 0, s |-> <<>>]

---------------------------------------------------------------------------
(* Duration *)

\* fmt's %.4g of the value ip + frac / unit, for 1 <= ip < 1000 and unit a
\* power of ten >= 1000: four significant digits, trailing zeros removed.
\* (The rounding is to nearest; the inputs of the model are never ties.)
FmtG4(ip, frac, unit) ==
    LET k == IF ip < 10 THEN 1 ELSE IF ip < 100 THEN 2 ELSE 3
        dec == 4 - k
        q == unit \div Pow10(dec)
        scaled == ip * Pow10(dec) + ((frac + (q \div 2)) \div q)
        whole == FmtNat(scaled \div Pow10(dec))
        fraction == StripZeros(FmtFixed(scaled % Pow10(dec), dec))
    IN  IF fraction = <<>> THEN whole ELSE whole \o <<".">> \o fraction

\* The table of units, in seconds (every unit is a whole number of seconds).
durations == <<
    [d |-> 3600 * 24 * 365, s |-> "y"],
    [d |-> 3600 * 24 * 30, s |-> "m"],
    [d |-> 3600 * 24 * 7, s |-> "w"],
    [d |-> 3600 * 24, s |-> "d"],
    [d |-> 3600, s |-> "h"],
    [d |-> 60, s |-> "m"],
    [d |-> 1, s |-> "s"] >>

\* The loop of Duration over the table, from index i (the table is indexed
\* from 1 here, so last starts at 0 where the code starts it at -1).  d is
\* the remaining duration in whole seconds: the units are multiples of a
\* second, so comparing, dividing and taking the remainder never look at
\* the nanoseconds below the second.
RECURSIVE DurationLoop(_, _, _, _)
DurationLoop(i, d, last, s) ==
    IF i > Len(durations) THEN s
    ELSE IF d >= durations[i].d
         THEN IF i - 1 # last
              THEN s
              ELSE LET s2 == s \o FmtNat(d \div durations[i].d)
                               \o <<durations[i].s>>
                   IN  IF Len(Bytes(s2)) >= 5 THEN s2
                       ELSE DurationLoop(i + 1, d % durations[i].d, i, s2)
         ELSE DurationLoop(i + 1, d, last, s)

\* Duration(d) for the duration of secs seconds and nanos nanoseconds.
Duration(secs, nanos) ==
    IF secs = 0 /\ nanos < 1000
    THEN FmtNat(nanos) \o <<"n", "s">>
    ELSE IF secs = 0 /\ nanos < 1000000
    THEN FmtG4(nanos \div 1000, nanos % 1000, 1000) \o <<"mu", "s">>
    ELSE IF secs = 0
    THEN FmtG4(nanos \div 1000000, nanos % 1000000, 1000000) \o <<"m", "s">>
    ELSE IF secs < 60
    THEN FmtG4(secs, nanos, 1000000000) \o <<"s">>
    ELSE DurationLoop(1, secs, 0, <<>>)

---------------------------------------------------------------------------
(* The alignment classifier *)

\* The class [a-z] under (?i): Go's regexp/syntax closes a class under
\* simple case folding, which adds U+212A to k and U+017F to s.
FoldAZ == Lower \cup Upper \cup {"kelvin", "long_s"}

AllIn(s, from, to, set) == \A i \in from..to : s[i] \in set

\* reNumType: (?i)^\d+(\.\d+)? ?([a-z]{1,5})?$ against the whole of s.
\* a, b, c are the ends of the digits, of the fraction and of the space.
reNumTypeMatch(s) ==
    \E a \in 1..Len(s) :
        /\ AllIn(s, 1, a, Digit)
        /\ \E b \in a..Len(s) :
            /\ \/ b = a
               \/ /\ b >= a + 2
                  /\ s[a + 1] = "."
                  /\ AllIn(s, a + 2, b, Digit)
            /\ \E c \in b..Len(s) :
                /\ \/ c = b
                   \/ c = b + 1 /\ s[c] = " "
                /\ \/ c = Len(s)
                   \/ /\ Len(s) - c \in 1..5
                      /\ AllIn(s, c + 1, Len(s), FoldAZ)

NumericTypes == {"uint", "int", "float64", "complex128", "duration"}

isTypeRightAlignable(x) ==
    IF x.t \in NumericTypes THEN TRUE
    ELSE IF x.t = "string" THEN reNumTypeMatch(x.s)
    ELSE IF x.t = "bytes" THEN reNumTypeMatch(x.s)
    ELSE FALSE

\* fmt's %v of a []byte: the decimal bytes in brackets.
RECURSIVE FmtByteList(_)
FmtByteList(bs) ==
    IF bs = <<>> THEN <<>>
    ELSE IF Len(bs) = 1 THEN FmtNat(bs[1])
    ELSE FmtNat(bs[1]) \o <<" ">> \o FmtByteList(Tail(bs))

\* fmt.Sprintf("%v", val)
Sprint(val) ==
    IF val.t \in {"int", "uint"} THEN FmtInt(val.n)
    ELSE IF val.t = "float64"
    THEN IF val.n % 10 = 0 THEN FmtInt(val.n \div 10)
         ELSE FmtInt(val.n \div 10) \o <<".">> \o <<Digits[(val.n % 10) + 1]>>
    ELSE IF val.t = "complex128"
    THEN <<"(">> \o FmtInt(val.n) \o <<"+">> \o FmtInt(val.m) \o <<"i", ")">>
    ELSE IF val.t = "bool"
    THEN IF val.n # 0 THEN <<"t", "r", "u", "e">>
         ELSE <<"f", "a", "l", "s", "e">>
    ELSE IF val.t = "bytes"
    THEN <<"[">> \o FmtByteList(Bytes(val.s)) \o <<"]">>
    ELSE val.s

---------------------------------------------------------------------------
(* Entries (apex/log.Entry): a level, a message and the fields, a function *)
(* from the names present to their values.  The timestamp only supplies    *)
(* text at the head of the line and is left out.                           *)

NameA == <<"a">>
NameB == <<"b">>
NameSource == <<"s", "o", "u", "r", "c", "e">>
NameMsg == <<"m", "s", "g">>

FieldNames == {NameA, NameB, NameSource}

Procs == {"p1", "p2"}

\* Bounds: the number of HandleLog calls of a behaviour of Spec, of
\* SpecSeq and of SpecOld.
MaxCalls == 3
MaxSeqCalls == 6
MaxOldCalls == 2

RECURSIVE Repeat(_, _)
Repeat(c, k) == IF k <= 0 THEN <<>> ELSE <<c>> \o Repeat(c, k - 1)

Abc == <<"a", "b", "c">>
Worker1 == <<"w", "o", "r", "k", "e", "r", "-", "1">>

NoField == [t |-> "absent", n |-> 0, m |-> 0, s |-> <<>>]

MkEntry(level, msg, va, vb, vs) ==
    [Level |-> level, Message |-> msg,
     Fields |-> [nm \in {x \in FieldNames :
                            \/ x = NameA /\ va # NoField
                            \/ x = NameB /\ vb # NoField
                            \/ x = NameSource /\ vs # NoField}
                 |-> IF nm = NameA THEN va
                     ELSE IF nm = NameB THEN vb ELSE vs]]

\* The records the producers of Spec log.
Entries ==
    {MkEntry("info", <<"h", "i">>, va, vb, vs) :
        va \in {IntVal(42), StrVal(Abc), StrVal(Worker1)},
        vb \in {NoField, IntVal(7)},
        vs \in {NoField, StrVal(<<"x">>)}}
    \cup {MkEntry("error", <<>>, NoField, NoField, NoField)}

\* The records of SpecSeq: one field, of every kind of value and of widths
\* 2 to 30.
SeqValues ==
    {IntVal(42), UintVal(7), FloatVal(35), ComplexVal(1, 2), BoolVal(TRUE),
     StrVal(Abc), StrVal(<<"1", "2", "3", "4", "5">>),
     StrVal(<<"3", ".", "5", " ", "m", "s">>), StrVal(Repeat("x", 30)),
     StrVal(Repeat("x", 25)),
     BytesVal(<<"1", "0">>),
     DurVal(0, 500), DurVal(0, 12500), DurVal(0, 1500000),
     DurVal(2, 500000000), DurVal(90, 0), DurVal(3600 * 24 * 400, 0)}

SeqEntries ==
    {MkEntry("info", <<"h", "i">>, va, NoField, NoField) : va \in SeqValues}

LevelSymbol(level) ==
    IF level = "debug" THEN "D"
    ELSE IF level = "info" THEN "I"
    ELSE IF level = "warn" THEN "W"
    ELSE IF level = "error" THEN "E"
    ELSE "F"

LevelColors(level) ==
    IF level = "debug" THEN <<"FgBlue">>
    ELSE IF level = "info" THEN <<"FgGreen">>
    ELSE IF level = "warn" THEN <<"FgYellow">>
    ELSE IF level = "error" THEN <<"FgRed">>
    ELSE <<"BgRed", "FgWhite">>

---------------------------------------------------------------------------
(* sortNames *)

\* SortLess comparing the names only.
SortLessByName(e, a, b) == StrLess(a, b)

\* The less function of sortNames, on the raw values of the entry.
SortLess(e, a, b) ==
    LET aright == isTypeRightAlignable(e.Fields[a])
        bright == isTypeRightAlignable(e.Fields[b])
    IN  IF aright # bright THEN aright ELSE StrLess(a, b)

\* sort.Slice: the names of S in the order of SortLess, which is a strict
\* total order on the distinct names of an entry.
RECURSIVE SortSet(_, _)
SortSet(e, S) ==
    IF S = {} THEN <<>>
    ELSE LET first == CHOOSE a \in S : \A b \in S \ {a} : SortLess(e, a, b)
         IN  <<first>> \o SortSet(e, S \ {first})

sortNames(e) == SortSet(e, DOMAIN e.Fields)

---------------------------------------------------------------------------
(* The line: what HandleLog puts in the buffer, one chunk per Fprintf.     *)
(* own is the producer whose call wrote the chunk.  A field chunk reads    *)
(* " name=" lead spaces, text, trail spaces; val is the raw value and      *)
(* right the branch of writeNameValue that wrote it.                       *)

Chunk(kind, p, name, val, text, right, lead, trail) ==
    [k |-> kind, own |-> p, name |-> name, val |-> val, text |-> text,
     right |-> right, lead |-> lead, trail |-> trail]

HeadChunk(p, e) ==
    Chunk("head", p, <<>>, NoField, <<LevelSymbol(e.Level)>>, FALSE, 0, 0)

MsgChunk(p, text, trail) ==
    Chunk("msg", p, <<>>, NoField, text, FALSE, 0, trail)

NewlineChunk(p) == Chunk("nl", p, <<>>, NoField, <<>>, FALSE, 0, 0)

max(a, b) == IF a > b THEN a ELSE b

---------------------------------------------------------------------------
(* keyStat and writeNameValue *)

ZeroStat == [MaxLength |-> 0, Count |-> 0, RightAlignable |-> 0]

\* kstat, _ := h.lengths[name]: the zero keyStat for a name not in the map.
Lookup(L, name) == IF name \in DOMAIN L THEN L[name] ELSE ZeroStat

\* A Store that keeps no entry but the one it writes.
StoreAlone(L, name, kstat) == [nm \in {name} |-> kstat]

\* h.lengths[name] = kstat
Store(L, name, kstat) ==
    [nm \in DOMAIN L \cup {name} |-> IF nm = name THEN kstat ELSE L[nm]]

\* The value writeNameValue works with: a time.Duration is replaced by the
\* string Duration makes of it.
Converted(val) ==
    IF val.t = "duration" THEN StrVal(Duration(val.m, val.n)) ELSE val

\* UpdateWidth without the decay of a width more than 20 columns too wide.
UpdateWidthNoDecay(kstat, sw) == max(kstat.MaxLength, sw)

\* UpdateWidth without the growth of the width to a wider value.
UpdateWidthNoGrow(kstat, sw) ==
    IF sw + 20 < kstat.MaxLength THEN sw ELSE kstat.MaxLength

\* The width part of the update of a keyStat by a value of width sw.
UpdateWidth(kstat, sw) ==
    LET grown == max(kstat.MaxLength, sw)
    IN  IF sw + 20 < grown THEN sw ELSE grown

\* Observe with the count kept only for right alignable values.
ObserveCountInBranch(kstat, sw, cand) ==
    [MaxLength |-> UpdateWidth(kstat, sw),
     Count |-> IF cand THEN kstat.Count + 1 ELSE kstat.Count,
     RightAlignable |-> IF cand THEN kstat.RightAlignable + 1
                        ELSE kstat.RightAlignable]

\* The keyStat after an observation of width sw, cand telling whether the
\* value is right alignable.
Observe(kstat, sw, cand) ==
    [MaxLength |-> UpdateWidth(kstat, sw),
     Count |-> kstat.Count + 1,
     RightAlignable |-> IF cand THEN kstat.RightAlignable + 1
                        ELSE kstat.RightAlignable]

\* MajorityRight with a tie counted as a majority.
MajorityOrTie(kstat) == kstat.RightAlignable >= kstat.Count - kstat.Count \div 2

\* isRight = kstat.RightAlignable > kstat.Count/2
MajorityRight(kstat) == kstat.RightAlignable > kstat.Count \div 2

\* The padding after a left aligned value; i is the index of the name in
\* names, counted from 1.
LeftPad(sw, width, i, nms) ==
    IF sw < width /\ i # Len(nms) THEN width - sw ELSE 0

\* writeNameValue(e, name, i, names) by producer p on the map L: the map
\* and the chunk written, and the observation made.
writeNameValue(p, L, e, name, i, nms) ==
    LET raw == e.Fields[name]
        val == Converted(raw)
        text == Sprint(val)
        sw == StringWidth(text)
        before == Lookup(L, name)
        cand == isTypeRightAlignable(val)
        kstat == Observe(before, sw, cand)
        isRight == MajorityRight(kstat)
    IN  [lengths |-> Store(L, name, kstat),
         chunk |-> IF isRight
                   THEN Chunk("field", p, name, raw, text, TRUE,
                              max(0, kstat.MaxLength - Len(text)), 0)
                   ELSE Chunk("field", p, name, raw, text, FALSE, 0,
                              LeftPad(sw, kstat.MaxLength, i, nms)),
         obs |-> [any |-> TRUE, by |-> p, name |-> name, val |-> raw,
                  sw |-> sw,
                  cand |-> cand, before |-> before, after |-> kstat,
                  right |-> isRight]]

---------------------------------------------------------------------------
(* The Handler.  mu is the holder of h.mu, lengths is h.lengths, buf is    *)
(* h.buf and sink records the last Write call on h.Writer: the bytes       *)
(* handed over (p), how many of them the writer took (n, counted in        *)
(* chunks) and whether it returned an error.  pc, entry, names, idx and    *)
(* ret are each producer's position, arguments, locals and last result.    *)
(* obs (the last observation of a field), rendered (how often each name    *)
(* was written to a line) and rightSeen (how often the value written was   *)
(* right alignable) are history variables, as is order.                    *)

NoEntry == MkEntry("debug", <<>>, NoField, NoField, NoField)

NoWrite == [any |-> FALSE, by |-> "none", e |-> NoEntry, p |-> <<>>,
            n |-> 0, err |-> FALSE, seq |-> 0]

\* order counts the acquisitions of h.mu and the writes to h.Writer;
\* ticket is the number of the acquisition a producer holds the mutex by.
NoOrder == [locks |-> 0, writes |-> 0, ticket |-> [p \in Procs |-> 0]]

Acquired(o, p) ==
    [locks |-> o.locks + 1, writes |-> o.writes,
     ticket |-> [o.ticket EXCEPT ![p] = o.locks + 1]]

Wrote(o, p) ==
    [locks |-> o.locks, writes |-> o.writes + 1,
     ticket |-> [o.ticket EXCEPT ![p] = 0]]

\* other is a second Handler, made by its own call of New: its map, its
\* buffer, the last Write on its writer and the number of its calls.
NoOther == [lengths |-> <<>>, buf |-> <<>>, sink |-> NoWrite, n |-> 0]

\* probe is the last application of one of the functions that use nothing
\* of a Handler: the classifier (val, right) or getKeyColor (key, sum, color).
\* wide holds the channels as computed, before their conversion to a byte.
NoProbe == [fn |-> "none", key |-> <<>>, val |-> NoField,
            sum |-> <<0, 0, 0, 0>>, right |-> FALSE, color |-> <<>>,
            wide |-> <<>>]

NoObs == [any |-> FALSE, by |-> "none", name |-> <<>>, val |-> NoField,
          sw |-> 0,
          cand |-> FALSE, before |-> ZeroStat, after |-> ZeroStat,
          right |-> FALSE]

\* What a Write of len chunks can answer: all taken, a short write, an
\* error with nothing taken, an error after everything was taken.
Outcomes(len) ==
    {[n |-> len, err |-> FALSE], [n |-> len - 1, err |-> FALSE],
     [n |-> 0, err |-> TRUE], [n |-> len, err |-> TRUE]}

\* bytes.Buffer.WriteTo on the contents b with the writer answering o:
\* what stays in the buffer and the error returned.
WriteTo(b, o) ==
    IF o.err THEN [buf |-> SubSeq(b, o.n + 1, Len(b)), err |-> "err"]
    ELSE IF o.n # Len(b)
    THEN [buf |-> SubSeq(b, o.n + 1, Len(b)), err |-> "ErrShortWrite"]
    ELSE [buf |-> <<>>, err |-> "nil"]

Init ==
    /\ version = 1
    /\ mu = "free"
    /\ lengths = <<>>
    /\ buf = <<>>
    /\ sink = NoWrite
    /\ pc = [p \in Procs |-> "idle"]
    /\ entry = [p \in Procs |-> NoEntry]
    /\ names = [p \in Procs |-> <<>>]
    /\ idx = [p \in Procs |-> 1]
    /\ ret = [p \in Procs |-> "none"]
    /\ ncalls = 0
    /\ obs = NoObs
    /\ rendered = [nm \in FieldNames |-> 0]
    /\ rightSeen = [nm \in FieldNames |-> 0]
    /\ order = NoOrder
    /\ other = NoOther
    /\ probe = NoProbe

\* HandleLog is called with an entry of E: the names are sorted before the
\* lock is taken.
CallFrom(p, E, limit) ==
    /\ pc[p] = "idle"
    /\ ncalls < limit
    /\ \E e \in E :
        /\ entry' = [entry EXCEPT ![p] = e]
        /\ names' = [names EXCEPT ![p] = sortNames(e)]
    /\ idx' = [idx EXCEPT ![p] = 1]
    /\ ret' = [ret EXCEPT ![p] = "none"]
    /\ pc' = [pc EXCEPT ![p] = "lock"]
    /\ ncalls' = ncalls + 1
    /\ UNCHANGED <<other, probe, version, mu, lengths, buf, sink, obs,
                   rendered, rightSeen, order>>

Call(p) == CallFrom(p, Entries, MaxCalls)

\* A Lock that does not wait for the holder.
CanLockHeld(m) == TRUE

\* h.mu.Lock() returns when the mutex is free.
CanLock(m) == m = "free"

\* A Reset that leaves the buffer as it is.
ResetKeeps(b) == b

\* h.buf.Reset()
Reset(b) == <<>>

\* The head of the line: the level symbol and, when there is one, the
\* message.
BeginLine(p, e) ==
    <<HeadChunk(p, e)>>
    \o (IF e.Message # <<>> THEN <<MsgChunk(p, e.Message, 0)>> ELSE <<>>)

Lock(p) ==
    /\ pc[p] = "lock"
    /\ CanLock(mu)
    /\ mu' = p
    /\ order' = Acquired(order, p)
    /\ buf' = Reset(buf) \o BeginLine(p, entry[p])
    /\ pc' = [pc EXCEPT ![p] = "fields"]
    /\ UNCHANGED <<other, probe, version, lengths, sink, entry, names, idx,
                   ret, ncalls, obs, rendered, rightSeen>>

\* A loop that skips no name.
SkippedNever(name) == FALSE

\* if name == "source" { continue }
Skipped(name) == name = NameSource

\* One iteration of the loop over names.
Field(p) ==
    /\ pc[p] = "fields"
    /\ idx[p] <= Len(names[p])
    /\ LET name == names[p][idx[p]]
           w == writeNameValue(p, lengths, entry[p], name, idx[p], names[p])
       IN  IF Skipped(name)
           THEN UNCHANGED <<lengths, buf, obs, rendered, rightSeen>>
           ELSE /\ lengths' = w.lengths
                /\ buf' = Append(buf, w.chunk)
                /\ obs' = w.obs
                /\ rendered' = [rendered EXCEPT ![name] = @ + 1]
                /\ rightSeen' = [rightSeen EXCEPT ![name] =
                                    IF w.obs.cand THEN @ + 1 ELSE @]
    /\ idx' = [idx EXCEPT ![p] = @ + 1]
    /\ UNCHANGED <<other, probe, version, mu, sink, pc, entry, names, ret,
                   ncalls, order>>

\* After the loop: the newline, the write of the buffer to the writer, the
\* return of its error and the deferred Unlock.
Flush(p) ==
    /\ pc[p] = "fields"
    /\ idx[p] > Len(names[p])
    /\ LET line == Append(buf, NewlineChunk(p))
       IN  \E o \in Outcomes(Len(line)) :
               /\ sink' = [any |-> TRUE, by |-> p, e |-> entry[p], p |-> line,
                           n |-> o.n, err |-> o.err,
                           seq |-> order.ticket[p]]
               /\ buf' = WriteTo(line, o).buf
               /\ ret' = [ret EXCEPT ![p] = WriteTo(line, o).err]
    /\ mu' = "free"
    /\ pc' = [pc EXCEPT ![p] = "idle"]
    /\ entry' = [entry EXCEPT ![p] = NoEntry]
    /\ names' = [names EXCEPT ![p] = <<>>]
    /\ idx' = [idx EXCEPT ![p] = 1]
    /\ order' = Wrote(order, p)
    /\ UNCHANGED <<other, probe, version, lengths, ncalls, obs, rendered,
                   rightSeen>>

Next ==
    \E p \in Procs :
        \/ Call(p)
        \/ Lock(p)
        \/ Field(p)
        \/ Flush(p)

Spec == Init /\ [][Next]_vars

\* One producer logging records of one field, of every kind of value.
SeqCall == CallFrom("p1", SeqEntries, MaxSeqCalls)

NextSeq ==
    \/ SeqCall
    \/ Lock("p1")
    \/ Field("p1")
    \/ Flush("p1")

SpecSeq == Init /\ [][NextSeq]_vars

---------------------------------------------------------------------------
(* The two earlier versions of the Handler (version 2 and 3), which differ *)
(* from each other in getKeyColor only.  h.lengths maps a name, and "msg", *)
(* to a width; the alignment is that of the current value.                 *)

OldLookup(L, name) == IF name \in DOMAIN L THEN L[name] ELSE 0

\* h.lengths[name] = max(h.lengths[name], sw), then the decay
OldUpdateWidth(l, sw) ==
    LET grown == max(l, sw)
    IN  IF sw + 20 < grown THEN sw ELSE grown

\* The field written by the earlier versions and the map after it.
OldWriteNameValue(p, L, e, name, i, nms) ==
    LET val == e.Fields[name]
        text == Sprint(val)
        sw == StringWidth(text)
        l == OldUpdateWidth(OldLookup(L, name), sw)
    IN  [lengths |-> Store(L, name, l),
         chunk |-> IF isTypeRightAlignable(val)
                   THEN Chunk("field", p, name, val, text, TRUE,
                              max(0, l - Len(text)), 0)
                   ELSE Chunk("field", p, name, val, text, FALSE, 0,
                              LeftPad(sw, l, i, nms))]

InitOld ==
    /\ version \in {2, 3}
    /\ mu = "free"
    /\ lengths = <<>>
    /\ buf = <<>>
    /\ sink = NoWrite
    /\ pc = [p \in Procs |-> "idle"]
    /\ entry = [p \in Procs |-> NoEntry]
    /\ names = [p \in Procs |-> <<>>]
    /\ idx = [p \in Procs |-> 1]
    /\ ret = [p \in Procs |-> "none"]
    /\ ncalls = 0
    /\ obs = NoObs
    /\ rendered = [nm \in FieldNames |-> 0]
    /\ rightSeen = [nm \in FieldNames |-> 0]
    /\ order = NoOrder
    /\ other = NoOther
    /\ probe = NoProbe

OldCall(p) == CallFrom(p, Entries, MaxOldCalls)

\* The lock, the width of the message and the head of the line; the
\* message is padded on the right to the widest message seen.
OldLock(p) ==
    /\ pc[p] = "lock"
    /\ CanLock(mu)
    /\ mu' = p
    /\ LET msg == entry[p].Message
           w == max(OldLookup(lengths, NameMsg), StringWidth(msg))
       IN  /\ lengths' = Store(lengths, NameMsg, w)
           /\ buf' = buf \o <<HeadChunk(p, entry[p]),
                              MsgChunk(p, msg, max(0, w - Len(msg)))>>
    /\ pc' = [pc EXCEPT ![p] = "fields"]
    /\ order' = Acquired(order, p)
    /\ UNCHANGED <<other, probe, version, sink, entry, names, idx, ret,
                   ncalls, obs, rendered, rightSeen>>

OldField(p) ==
    /\ pc[p] = "fields"
    /\ idx[p] <= Len(names[p])
    /\ LET name == names[p][idx[p]]
           w == OldWriteNameValue(p, lengths, entry[p], name, idx[p],
                                  names[p])
       IN  IF Skipped(name)
           THEN UNCHANGED <<lengths, buf, rendered, rightSeen>>
           ELSE /\ lengths' = w.lengths
                /\ buf' = Append(buf, w.chunk)
                /\ rendered' = [rendered EXCEPT ![name] = @ + 1]
                /\ rightSeen' = [rightSeen EXCEPT ![name] =
                                    IF w.chunk.right THEN @ + 1 ELSE @]
    /\ idx' = [idx EXCEPT ![p] = @ + 1]
    /\ UNCHANGED <<other, probe, version, mu, sink, pc, entry, names, ret,
                   ncalls, obs, order>>

\* The newline, the write whose result is dropped, the reset of the
\* buffer and return nil.
OldFlush(p) ==
    /\ pc[p] = "fields"
    /\ idx[p] > Len(names[p])
    /\ LET line == Append(buf, NewlineChunk(p))
       IN  \E o \in Outcomes(Len(line)) :
               sink' = [any |-> TRUE, by |-> p, e |-> entry[p], p |-> line,
                        n |-> o.n, err |-> o.err, seq |-> order.ticket[p]]
    /\ buf' = <<>>
    /\ ret' = [ret EXCEPT ![p] = "nil"]
    /\ mu' = "free"
    /\ pc' = [pc EXCEPT ![p] = "idle"]
    /\ entry' = [entry EXCEPT ![p] = NoEntry]
    /\ names' = [names EXCEPT ![p] = <<>>]
    /\ idx' = [idx EXCEPT ![p] = 1]
    /\ order' = Wrote(order, p)
    /\ UNCHANGED <<other, probe, version, lengths, ncalls, obs, rendered,
                   rightSeen>>

NextOld ==
    \E p \in Procs :
        \/ OldCall(p)
        \/ OldLock(p)
        \/ OldField(p)
        \/ OldFlush(p)

SpecOld == InitOld /\ [][NextOld]_vars

---------------------------------------------------------------------------
(* Properties *)

\* The field chunks of a line, in order.
FieldChunks(line) == SelectSeq(line, LAMBDA c : c.k = "field")

\* The names of an entry in the order of sortNames, without "source".
ShownNames(e) == SelectSeq(sortNames(e), LAMBDA nm : ~Skipped(nm))

WholeLineTaken == ~sink.err /\ sink.n = Len(sink.p)

\* The label the Duration of a whole number of seconds d >= 60 is to have:
\* count and letter of the largest unit u <= d, then of each next smaller
\* unit as long as its count is not zero and the label is shorter than 5.
RECURSIVE LabelFrom(_, _, _)
LabelFrom(i, d, s) ==
    IF i > Len(durations) \/ Len(s) >= 5 \/ d \div durations[i].d = 0 THEN s
    ELSE LabelFrom(i + 1, d % durations[i].d,
                   s \o FmtNat(d \div durations[i].d) \o <<durations[i].s>>)

LargestUnit(d) == CHOOSE i \in 1..Len(durations) :
                      /\ durations[i].d <= d
                      /\ \A j \in 1..(i - 1) : durations[j].d > d

ExpectedLabel(d) ==
    LET i == LargestUnit(d)
    IN  LabelFrom(i + 1, d % durations[i].d,
                  FmtNat(d \div durations[i].d) \o <<durations[i].s>>)

\* C1: every duration of one minute or more is written as the non-empty
\* label that starts at the largest unit not above it and goes on through
\* the immediately following units of nonzero count while shorter than 5
\* characters; 90 s is written "1m30s".
C1_DurationLabel ==
    /\ ExpectedLabel(90) = <<"1", "m", "3", "0", "s">>
    /\ \A i \in 1..Len(buf) :
        (buf[i].k = "field" /\ buf[i].val.t = "duration" /\ buf[i].val.m >= 60)
            => /\ buf[i].text # <<>>
               /\ buf[i].text = ExpectedLabel(buf[i].val.m)

\* C2: after an observation of width w the tracked MaxLength is w when
\* w + 20 < max(previous MaxLength, w) and max(previous MaxLength, w)
\* otherwise, the previous MaxLength being 0 on the first sighting; the
\* value is what the map holds for the name.
C2_MaxWidth ==
    obs.any =>
        LET grown == IF obs.before.MaxLength > obs.sw
                     THEN obs.before.MaxLength ELSE obs.sw
        IN  /\ obs.after.MaxLength =
                   IF obs.sw + 20 < grown THEN obs.sw ELSE grown
            /\ obs.before.Count = 0 => obs.before.MaxLength = 0
            /\ obs.name \in DOMAIN lengths
            /\ lengths[obs.name].MaxLength = obs.after.MaxLength

\* Widths 30 then 5: the second observation resets the width to 5.
C2_Witness ==
    /\ obs.any
    /\ obs.after.Count = 2
    /\ obs.before.MaxLength = 30
    /\ obs.sw = 5
    /\ lengths[obs.name].MaxLength = 5

\* C3: a field is written right aligned exactly when, counting this
\* observation, the right alignable values seen under its name are more
\* than half of all values seen under it, whatever the current value is.
C3_MajorityAlignment ==
    /\ obs.any => (obs.right <=> 2 * rightSeen[obs.name] > rendered[obs.name])
    /\ \A p \in Procs :
        (pc[p] = "fields" /\ mu = p /\ buf # <<>> /\ buf[Len(buf)].k = "field")
            => LET c == buf[Len(buf)]
               IN  c.right <=> 2 * rightSeen[c.name] > rendered[c.name]

\* 3 right alignable values out of 5, the fifth not right alignable: RIGHT.
C3_Witness ==
    /\ obs.any
    /\ rendered[obs.name] = 5
    /\ rightSeen[obs.name] = 3
    /\ ~obs.cand
    /\ obs.right
    /\ buf # <<>>
    /\ buf[Len(buf)].right

\* The line of the call of producer p with entry e: head and message, one
\* field chunk of p for each name shown, in their order, and the newline.
IsLineOf(line, p, e) ==
    LET hdr == BeginLine(p, e)
        nms == ShownNames(e)
    IN  /\ Len(line) = Len(hdr) + Len(nms) + 1
        /\ SubSeq(line, 1, Len(hdr)) = hdr
        /\ \A j \in 1..Len(nms) :
            LET c == line[Len(hdr) + j]
            IN  /\ c.k = "field"
                /\ c.own = p
                /\ c.name = nms[j]
                /\ c.val = e.Fields[nms[j]]
        /\ line[Len(line)] = NewlineChunk(p)

\* C4: a producer between Lock and Unlock, where the buffer, the map and
\* the writer are used, holds the mutex, and what is handed to the writer
\* is the complete line of one call, with nothing of another call in it.
C4_LinesNotInterleaved ==
    /\ \A p \in Procs : pc[p] = "fields" => mu = p
    /\ mu \in Procs => pc[mu] = "fields" /\ \A i \in 1..Len(buf) : buf[i].own = mu
    /\ sink.any => IsLineOf(sink.p, sink.by, sink.e)

\* One producer is writing fields while the other waits for the mutex,
\* after a line of the other reached the writer.
C4_Witness ==
    /\ pc["p1"] = "fields"
    /\ pc["p2"] = "lock"
    /\ idx["p1"] = 2
    /\ Len(buf) >= 3
    /\ sink.any
    /\ sink.by = "p2"

\* C5 as stated: in every line the fields written right aligned come
\* before the fields written left aligned, and fields of one alignment are
\* in ascending order of their names.
C5_RenderedOrder ==
    sink.any =>
        LET fs == FieldChunks(sink.p)
        IN  \A i, j \in 1..Len(fs) :
                i < j => /\ ~(~fs[i].right /\ fs[j].right)
                         /\ fs[i].right = fs[j].right
                                => StrLess(fs[i].name, fs[j].name)

\* C5 as amended: in every line the fields whose value in this record the
\* classifier calls right alignable come before the others, and fields of
\* one class are in ascending order of their names.
C5_SortedByValue ==
    sink.any =>
        LET fs == FieldChunks(sink.p)
        IN  \A i, j \in 1..Len(fs) :
                i < j =>
                    LET ri == isTypeRightAlignable(fs[i].val)
                        rj == isTypeRightAlignable(fs[j].val)
                    IN  /\ ~(~ri /\ rj)
                        /\ ri = rj => StrLess(fs[i].name, fs[j].name)

\* A line of two right alignable values, "a" then "b", in which "a" is
\* written left aligned because of the values seen under it before.
C5_Witness ==
    /\ sink.any
    /\ Len(FieldChunks(sink.p)) = 2
    /\ FieldChunks(sink.p)[1].name = NameA
    /\ isTypeRightAlignable(FieldChunks(sink.p)[1].val)
    /\ ~FieldChunks(sink.p)[1].right
    /\ FieldChunks(sink.p)[2].name = NameB
    /\ FieldChunks(sink.p)[2].right

\* C6: a HandleLog call whose write failed (an error, or fewer bytes taken
\* than the line has) returns an error, and a call whose line the writer
\* took whole returns nil.
C6_WriteErrorReturned ==
    (sink.any /\ ret[sink.by] # "none")
        => (ret[sink.by] = "nil" <=> WholeLineTaken)

\* C7: an observation of a value of a numeric kind, a duration of any
\* size included, counts as right alignable: RightAlignable grows by 1.
C7_NumericIsCandidate ==
    (obs.any /\ obs.val.t \in NumericTypes)
        => /\ obs.cand
           /\ obs.after.RightAlignable = obs.before.RightAlignable + 1

\* C8: padding follows a left aligned value only when another field is
\* written after it on the line; nothing follows the last field written.
C8_NoTrailingPad ==
    sink.any =>
        LET fs == FieldChunks(sink.p)
        IN  \A i \in 1..Len(fs) :
                fs[i].trail > 0 => (~fs[i].right /\ i < Len(fs))

\* C9: no line has a field named "source", and every other field of the
\* record is on its line exactly once, with nothing else.
C9_SourceHidden ==
    sink.any =>
        LET fs == FieldChunks(sink.p)
            present == DOMAIN sink.e.Fields
        IN  /\ \A i \in 1..Len(fs) :
                fs[i].name # NameSource /\ fs[i].name \in present
            /\ \A nm \in present \ {NameSource} :
                Cardinality({i \in 1..Len(fs) : fs[i].name = nm}) = 1

\* The line of a record of "a", "b" and "source": two fields.
C9_Witness ==
    /\ sink.any
    /\ DOMAIN sink.e.Fields = {NameA, NameB, NameSource}
    /\ Len(FieldChunks(sink.p)) = 2

\* C10: every keyStat has 0 <= RightAlignable <= Count, its Count is the
\* number of times a field of its name was written to a line, a name never
\* written has no keyStat, and a first sighting starts from the zero
\* keyStat.
C10_StatCounts ==
    /\ DOMAIN lengths \subseteq FieldNames
    /\ \A nm \in FieldNames :
        IF nm \in DOMAIN lengths
        THEN /\ 0 <= lengths[nm].RightAlignable
             /\ lengths[nm].RightAlignable <= lengths[nm].Count
             /\ lengths[nm].Count = rendered[nm]
        ELSE rendered[nm] = 0
    /\ (obs.any /\ rendered[obs.name] = 1) => obs.before = ZeroStat

\* Three observations of "a", one of them right alignable.
C10_Witness ==
    /\ NameA \in DOMAIN lengths
    /\ lengths[NameA].Count = 3
    /\ lengths[NameA].RightAlignable = 1
    /\ NameB \in DOMAIN lengths
    /\ lengths[NameB].Count = 1


---------------------------------------------------------------------------
(* Key colors.  A 32-bit checksum is the sequence of its four bytes, the   *)
(* most significant first, since it does not fit TLC's integers.           *)

NameError == <<"e", "r", "r", "o", "r">>
NamePort == <<"p", "o", "r", "t">>
NameId == <<"i", "d">>
NameUser == <<"u", "s", "e", "r">>

\* LevelColors of the two earlier versions.
LevelColorsOld(level) ==
    IF level = "debug" THEN <<"FgWhite">>
    ELSE IF level = "info" THEN <<"FgBlue">>
    ELSE IF level = "warn" THEN <<"FgYellow">>
    ELSE IF level = "error" THEN <<"FgRed">>
    ELSE <<"FgHiRed">>

\* KeyColors of the earliest version; KeyColors[i] of the code is
\* KeyColors[i + 1] here.
KeyColors ==
    << <<"FgRed">>, <<"FgGreen">>, <<"FgYellow">>, <<"FgBlue">>,
       <<"FgMagenta">>, <<"FgCyan">>, <<"FgHiRed">>, <<"FgHiGreen">>,
       <<"FgHiYellow">>, <<"FgHiBlue">>, <<"FgHiMagenta">>, <<"FgHiCyan">> >>

\* The color of the ERROR level in the given version.
ErrorLevelColor(ver) ==
    IF ver = 1 THEN LevelColors("error") ELSE LevelColorsOld("error")

BitOf(b, i) == (b \div (2 ^ i)) % 2

\* a xor b of two bytes.
XorByte(a, b) ==
    ((BitOf(a, 0) + BitOf(b, 0)) % 2)
    + 2 * ((BitOf(a, 1) + BitOf(b, 1)) % 2)
    + 4 * ((BitOf(a, 2) + BitOf(b, 2)) % 2)
    + 8 * ((BitOf(a, 3) + BitOf(b, 3)) % 2)
    + 16 * ((BitOf(a, 4) + BitOf(b, 4)) % 2)
    + 32 * ((BitOf(a, 5) + BitOf(b, 5)) % 2)
    + 64 * ((BitOf(a, 6) + BitOf(b, 6)) % 2)
    + 128 * ((BitOf(a, 7) + BitOf(b, 7)) % 2)

Xor(c, d) ==
    <<XorByte(c[1], d[1]), XorByte(c[2], d[2]), XorByte(c[3], d[3]),
      XorByte(c[4], d[4])>>

\* c >> 1
ShiftRight(c) ==
    <<c[1] \div 2, c[2] \div 2 + 128 * (c[1] % 2),
      c[3] \div 2 + 128 * (c[2] % 2), c[4] \div 2 + 128 * (c[3] % 2)>>

\* The reflected IEEE polynomial 0xedb88320.
IEEE == <<237, 184, 131, 32>>

\* One bit of the update: c >> 1, xor the polynomial when a 1 fell out.
crcBit(c) == IF c[4] % 2 = 1 THEN Xor(ShiftRight(c), IEEE) ELSE ShiftRight(c)

RECURSIVE crcBits(_, _)
crcBits(c, k) ==
    IF k = 0 THEN c
    ELSE CHOOSE r \in {crcBits(n, k - 1) : n \in {crcBit(c)}} : TRUE

\* The update of c by the bytes bs.  The one-element sets have TLC take a
\* value before it goes on to the next byte.
RECURSIVE crcUpdate(_, _)
crcUpdate(c, bs) ==
    IF bs = <<>> THEN c
    ELSE CHOOSE r \in {crcUpdate(n, Tail(bs)) :
                           n \in {crcBits(Xor(c, <<0, 0, 0, Head(bs)>>), 8)}} :
             TRUE

\* crc32.ChecksumIEEE(bs)
ChecksumIEEE(bs) ==
    CHOOSE r \in {Xor(crcUpdate(<<255, 255, 255, 255>>, b),
                      <<255, 255, 255, 255>>) : b \in {bs}} : TRUE

\* sum >> k for k = 24, 16, 8: these fit TLC's integers.
Shr(sum, k) ==
    IF k = 24 THEN sum[1]
    ELSE IF k = 16 THEN sum[1] * 256 + sum[2]
    ELSE sum[1] * 65536 + sum[2] * 256 + sum[3]

\* sum % n for an n below 256, by the residues of the powers of 256.
Mod(sum, n) ==
    ((sum[1] % n) * (16777216 % n) + (sum[2] % n) * (65536 % n)
     + (sum[3] % n) * (256 % n) + (sum[4] % n)) % n

\* mapColor without the conversion of v to a byte.
mapColorAllBits(v) == (v * 5) \div 10 + 105

\* mapColor before the conversion of its result to a byte: v is cut to its
\* low byte, then v*5/10 + 105 is computed in 32 bits.
mapColorWide(v) == ((v % 256) * 5) \div 10 + 105

mapColor(v) == mapColorWide(v) % 256

\* mapColor of the second version, in byte arithmetic.
mapColorOld(v) == ((v % 256) \div 2 + 64) % 256

\* The channels of a checksum as computed, before the conversion to a byte.
WideChannels(ver, sum) ==
    IF ver = 1
    THEN <<mapColorWide(Shr(sum, 24)), mapColorWide(Shr(sum, 16)),
           mapColorWide(Shr(sum, 8))>>
    ELSE <<(Shr(sum, 24) % 256) \div 2 + 64, (Shr(sum, 16) % 256) \div 2 + 64,
           (Shr(sum, 8) % 256) \div 2 + 64>>

\* The color getKeyColor makes of the checksum of a key other than "error".
ChecksumColor(ver, sum) ==
    IF ver = 1
    THEN <<"RGB", mapColor(Shr(sum, 24)), mapColor(Shr(sum, 16)),
           mapColor(Shr(sum, 8))>>
    ELSE IF ver = 2
    THEN <<"RGB", mapColorOld(Shr(sum, 24)), mapColorOld(Shr(sum, 16)),
           mapColorOld(Shr(sum, 8))>>
    ELSE KeyColors[Mod(sum, Len(KeyColors)) + 1]

getKeyColor(ver, key) ==
    IF key = NameError
    THEN IF ver = 3 THEN KeyColors[6 + 1] ELSE ErrorLevelColor(ver)
    ELSE ChecksumColor(ver, ChecksumIEEE(Bytes(key)))


---------------------------------------------------------------------------
(* SpecPure applies the functions that use nothing of a Handler, under     *)
(* each of the three versions of the code, and records the application in  *)
(* probe.                                                                  *)

KeyInputs == {NameError, NameA, NameB, NameSource, NameMsg, NamePort,
              NameId, NameUser}

\* The bytes the sampled checksums are made of.
SumBytes == {0, 1, 127, 128, 254, 255}

SumInputs == {<<b3, b2, b1, b0>> : b3 \in SumBytes, b2 \in SumBytes,
                                   b1 \in SumBytes, b0 \in {0, 255}}

ClassifyStrings ==
    { <<>>, <<"-">>, <<"a", "b", "c">>, <<"1", "0">>,
      <<"3", ".", "5", " ", "m", "s">>, <<"1", ".", "5">>,
      <<"7", " ", "M", "b">>, <<"1", "0", "s">>,
      <<"1", "a", "b", "c", "d", "e">>, <<"1", "a", "b", "c", "d", "e", "f">>,
      <<"1", ".">>, <<".", "5">>, <<"1", " ">>, <<"1", " ", " ", "m", "s">>,
      <<"1", "2", "a", "b", "3">>, <<"-", "1">>, <<"1", ".", "5", ".", "2">>,
      <<"1", "kelvin">>, <<"2", " ", "m", "long_s">>, <<"5", "mu", "s">> }

ClassifyInputs ==
    {StrVal(s) : s \in ClassifyStrings}
    \cup {BytesVal(s) : s \in ClassifyStrings}
    \cup {IntVal(42), IntVal(-3), UintVal(7), FloatVal(15),
          ComplexVal(1, 2), DurVal(1, 500), BoolVal(TRUE), BoolVal(FALSE)}

InitPure ==
    /\ version \in {1, 2, 3}
    /\ mu = "free"
    /\ lengths = <<>>
    /\ buf = <<>>
    /\ sink = NoWrite
    /\ pc = [p \in Procs |-> "idle"]
    /\ entry = [p \in Procs |-> NoEntry]
    /\ names = [p \in Procs |-> <<>>]
    /\ idx = [p \in Procs |-> 1]
    /\ ret = [p \in Procs |-> "none"]
    /\ ncalls = 0
    /\ obs = NoObs
    /\ rendered = [nm \in FieldNames |-> 0]
    /\ rightSeen = [nm \in FieldNames |-> 0]
    /\ order = NoOrder
    /\ other = NoOther
    /\ probe = NoProbe

PureFrame ==
    UNCHANGED <<version, mu, lengths, buf, sink, pc, entry, names, idx, ret,
                ncalls, obs, rendered, rightSeen, order, other>>

\* getKeyColor(key)
KeyColor ==
    \E key \in KeyInputs :
        /\ probe' = [fn |-> "getKeyColor", key |-> key, val |-> NoField,
                     sum |-> ChecksumIEEE(Bytes(key)), right |-> FALSE,
                     color |-> getKeyColor(version, key),
                     wide |-> IF key = NameError \/ version = 3 THEN <<>>
                              ELSE WideChannels(version,
                                                ChecksumIEEE(Bytes(key)))]
        /\ PureFrame

\* The rest of getKeyColor after the checksum is taken, on a checksum that
\* may be that of any key other than "error".
SumColor ==
    \E sum \in SumInputs :
        /\ probe' = [fn |-> "sum", key |-> <<>>, val |-> NoField,
                     sum |-> sum, right |-> FALSE,
                     color |-> ChecksumColor(version, sum),
                     wide |-> IF version = 3 THEN <<>>
                              ELSE WideChannels(version, sum)]
        /\ PureFrame

\* isTypeRightAlignable(x)
Classify ==
    \E x \in ClassifyInputs :
        /\ probe' = [fn |-> "isTypeRightAlignable", key |-> <<>>, val |-> x,
                     sum |-> <<0, 0, 0, 0>>,
                     right |-> isTypeRightAlignable(x), color |-> <<>>,
                     wide |-> <<>>]
        /\ PureFrame

NextPure ==
    \/ KeyColor
    \/ SumColor
    \/ Classify

SpecPure == InitPure /\ [][NextPure]_vars

---------------------------------------------------------------------------
(* Properties of the key colors and of the classifier.                     *)

\* C11: the key color of the field named "error" is the color of the
\* ERROR level.  That the color depends on the name alone is how
\* getKeyColor is written: it reads its argument and package tables only.
C11_ErrorKeyColor ==
    (probe.fn = "getKeyColor" /\ probe.key = NameError)
        => probe.color = ErrorLevelColor(version)


\* The pattern of C16: digits, an optional fraction, an optional space and
\* at most five ASCII letters, against the whole of s.
AsciiNumType(s) ==
    \E a \in 1..Len(s) :
        /\ AllIn(s, 1, a, Digit)
        /\ \E b \in a..Len(s) :
            /\ \/ b = a
               \/ /\ b >= a + 2
                  /\ s[a + 1] = "."
                  /\ AllIn(s, a + 2, b, Digit)
            /\ \E c \in b..Len(s) :
                /\ \/ c = b
                   \/ c = b + 1 /\ s[c] = " "
                /\ \/ c = Len(s)
                   \/ /\ Len(s) - c \in 1..5
                      /\ AllIn(s, c + 1, Len(s), Lower \cup Upper)

\* C16: a string or byte sequence is classified RIGHT exactly when it is
\* digits, an optional '.' and digits, an optional space and optionally 1 to
\* 5 ASCII letters; a value of any type that is neither numeric, string nor
\* bytes is LEFT.
C16_ClassifierPattern ==
    probe.fn = "isTypeRightAlignable"
        => IF probe.val.t \in {"string", "bytes"}
           THEN probe.right <=> AsciiNumType(probe.val.s)
           ELSE probe.val.t \notin NumericTypes => ~probe.right

\* C17: each channel mapColor makes of the bytes of a checksum lies in
\* 105..232, and the value computed for it fits a byte, so that the
\* conversion to a byte changes nothing.
C17_ChannelsInBand ==
    (version = 1
     /\ \/ probe.fn = "sum"
        \/ probe.fn = "getKeyColor" /\ probe.key # NameError)
        => \A i \in 1..3 :
               /\ probe.wide[i] <= 255
               /\ probe.color[i + 1] = probe.wide[i]
               /\ probe.color[i + 1] \in 105..232

\* Both ends of the band are reached: byte 255 gives 232 and byte 0 gives
\* 105, whatever the other bytes of the checksum are.
C17_Witness ==
    /\ version = 1
    /\ probe.fn = "sum"
    /\ probe.sum = <<255, 0, 127, 255>>
    /\ probe.color = <<"RGB", 232, 105, 168>>


---------------------------------------------------------------------------
(* Properties of the column width, of the buffer and of the lock.          *)

\* C13: right after an observation of a value of width w the column width
\* of its name is at least w and at most w + 20, whatever was observed
\* before, and the value is written with at most 20 columns of padding.
C13_WidthWithinTwenty ==
    /\ obs.any => /\ obs.sw <= obs.after.MaxLength
                  /\ obs.after.MaxLength <= obs.sw + 20
                  /\ lengths[obs.name].MaxLength = obs.after.MaxLength
    /\ \A p \in Procs :
        (pc[p] = "fields" /\ mu = p /\ buf # <<>> /\ buf[Len(buf)].k = "field")
            => buf[Len(buf)].lead + buf[Len(buf)].trail \in 0..20

\* Widths 25 then 5: the column stays 25 wide, 20 more than the value.
C13_Witness ==
    /\ obs.any
    /\ obs.before.MaxLength = 25
    /\ obs.sw = 5
    /\ obs.after.MaxLength = obs.sw + 20


\* The names among the first k of nms that are written to the line.
ShownAmong(nms, k) == SelectSeq(SubSeq(nms, 1, k), LAMBDA nm : ~Skipped(nm))

\* C12: whatever became of the writes of earlier calls, the buffer of the
\* call that holds the mutex has the head of its own line and the fields it
\* wrote so far and nothing else, and what is handed to the writer is one
\* line: one head, first, the fields of the entry, and one newline, last.
C12_NoLeftover ==
    /\ \A p \in Procs :
        (mu = p /\ pc[p] = "fields")
            => LET hdr == BeginLine(p, entry[p])
                   shown == ShownAmong(names[p], idx[p] - 1)
               IN  /\ Len(buf) = Len(hdr) + Len(shown)
                   /\ SubSeq(buf, 1, Len(hdr)) = hdr
                   /\ \A j \in 1..Len(shown) :
                          /\ buf[Len(hdr) + j].k = "field"
                          /\ buf[Len(hdr) + j].name = shown[j]
    /\ sink.any
        => /\ Len(sink.p) = Len(BeginLine(sink.by, sink.e))
                                + Len(ShownNames(sink.e)) + 1
           /\ sink.p[1] = HeadChunk(sink.by, sink.e)
           /\ \A i \in 2..Len(sink.p) : sink.p[i].k # "head"
           /\ \A i \in 1..(Len(sink.p) - 1) : sink.p[i].k # "nl"
           /\ sink.p[Len(sink.p)].k = "nl"

\* The write of a call of p1 failed or was cut short, and the line of a
\* later call of p2, with two fields, was then taken whole by the writer.
C12_Witness ==
    /\ ret["p1"] \in {"err", "ErrShortWrite"}
    /\ pc["p1"] = "idle"
    /\ sink.any
    /\ sink.by = "p2"
    /\ ret["p2"] = "nil"
    /\ Len(FieldChunks(sink.p)) = 2
    /\ buf = <<>>


\* The lines are written in the order of the lock: the call that holds the
\* mutex is the latest to have acquired it and every earlier acquirer has
\* written its line, and the k-th Write is that of the k-th acquirer.
WrittenInLockOrder ==
    /\ order.locks \in {order.writes, order.writes + 1}
    /\ \A p \in Procs :
        pc[p] = "fields" => /\ order.ticket[p] = order.locks
                            /\ order.locks = order.writes + 1
    /\ sink.any => sink.seq = order.writes
    /\ \A nm \in DOMAIN lengths :
        /\ lengths[nm].Count = rendered[nm]
        /\ lengths[nm].RightAlignable = rightSeen[nm]

\* A step of the loop over names by p is taken by the latest acquirer of
\* the lock, on the stats as all observations so far left them, and its
\* chunk has the alignment and the padding of the stats after its own
\* observation; a Write by p is the next in the order of the lock.
StepInLockOrder ==
    \A p \in Procs :
        /\ (pc[p] = "fields" /\ idx'[p] = idx[p] + 1)
            => /\ mu = p
               /\ order.ticket[p] = order.locks
               /\ lengths' # lengths
                   => /\ obs'.by = p
                      /\ obs'.before = Lookup(lengths, obs'.name)
                      /\ obs'.after = Observe(obs'.before, obs'.sw, obs'.cand)
                      /\ lengths' = Store(lengths, obs'.name, obs'.after)
                      /\ buf'[Len(buf')].right = MajorityRight(obs'.after)
                      /\ buf'[Len(buf')].lead + buf'[Len(buf')].trail
                             \in {0, obs'.after.MaxLength - obs'.sw}
        /\ (pc[p] = "fields" /\ pc'[p] = "idle")
            => /\ sink'.by = p
               /\ sink'.seq = order.ticket[p]
               /\ sink'.seq = order.writes + 1

\* C15: the lines reach the writer in the order in which their calls
\* acquired the mutex, and each line is rendered with the stats made of the
\* observations of the earlier acquirers and of its own call.
C15_LockOrder == [](WrittenInLockOrder) /\ [][StepInLockOrder]_vars

\* p2 holds the mutex as its third acquirer, after the second line was
\* written by p1, and has observed a name seen by both earlier calls.
C15_Witness ==
    /\ pc["p2"] = "fields"
    /\ order.ticket["p2"] = 3
    /\ sink.any
    /\ sink.by = "p1"
    /\ sink.seq = 2
    /\ obs.by = "p2"
    /\ obs.before.Count = 2


---------------------------------------------------------------------------
(* SpecTwo: two Handlers.  Producer p1 calls HandleLog of the first, step  *)
(* by step as in Spec; the calls of the second, which has its own mutex,   *)
(* map, buffer and writer, are taken whole.                                *)

\* Bound: the number of calls of the two Handlers of SpecTwo together.
MaxTwoCalls == 3

\* The records logged in SpecTwo: with and without each of the names.
TwoEntries ==
    {MkEntry("info", <<"h", "i">>, IntVal(42), NoField, NoField),
     MkEntry("info", <<"h", "i">>, StrVal(Abc), IntVal(7), NoField),
     MkEntry("info", <<"h", "i">>, NoField, IntVal(7), StrVal(<<"x">>)),
     MkEntry("info", <<"h", "i">>, IntVal(42), IntVal(7), StrVal(<<"x">>))}

TwoCall == CallFrom("p1", TwoEntries, MaxTwoCalls)

\* The loop over names from index i on, on the map L and the buffer b.
RECURSIVE FieldsFrom(_, _, _, _, _, _)
FieldsFrom(p, L, b, e, nms, i) ==
    IF i > Len(nms) THEN [lengths |-> L, buf |-> b]
    ELSE IF Skipped(nms[i]) THEN FieldsFrom(p, L, b, e, nms, i + 1)
    ELSE LET w == writeNameValue(p, L, e, nms[i], i, nms)
         IN  FieldsFrom(p, w.lengths, Append(b, w.chunk), e, nms, i + 1)

\* A whole HandleLog call of the second Handler.
OtherHandleLog ==
    /\ ncalls < MaxTwoCalls
    /\ \E e \in TwoEntries :
        LET nms == sortNames(e)
            r == FieldsFrom("q", other.lengths,
                            Reset(other.buf) \o BeginLine("q", e), e, nms, 1)
            line == Append(r.buf, NewlineChunk("q"))
        IN  \E o \in Outcomes(Len(line)) :
                other' = [lengths |-> r.lengths,
                          buf |-> WriteTo(line, o).buf,
                          sink |-> [any |-> TRUE, by |-> "q", e |-> e,
                                    p |-> line, n |-> o.n, err |-> o.err,
                                    seq |-> other.n + 1],
                          n |-> other.n + 1]
    /\ ncalls' = ncalls + 1
    /\ UNCHANGED <<version, mu, lengths, buf, sink, pc, entry, names, idx,
                   ret, obs, rendered, rightSeen, order, probe>>

NextTwo ==
    \/ TwoCall
    \/ Lock("p1")
    \/ Field("p1")
    \/ Flush("p1")
    \/ OtherHandleLog

SpecTwo == Init /\ [][NextTwo]_vars

\* The names of the record e other than "source".
RecordNames(e) == DOMAIN e.Fields \ {NameSource}

\* The names whose stats differ between the maps L and M, a name in one
\* map only being one of them.
Touched(L, M) ==
    {nm \in DOMAIN L \cup DOMAIN M :
        nm \notin DOMAIN L \/ nm \notin DOMAIN M \/ L[nm] # M[nm]}

\* What a step may do to the stats of the two Handlers.
StatsFrame ==
    /\ DOMAIN lengths \subseteq DOMAIN lengths'
    /\ DOMAIN other.lengths \subseteq DOMAIN other'.lengths
    /\ lengths' # lengths
        => /\ other' = other
           /\ \E p \in Procs :
               /\ pc[p] = "fields"
               /\ idx'[p] = idx[p] + 1
               /\ Touched(lengths, lengths') \subseteq RecordNames(entry[p])
    /\ other' # other
        => /\ lengths' = lengths
           /\ Touched(other.lengths, other'.lengths)
                  \subseteq RecordNames(other'.sink.e)

\* C14: a HandleLog call changes the stats of names of its record other
\* than "source" and no others, leaves the stats of the other Handler as
\* they are, and removes no entry.
C14_StatsFrame == [][StatsFrame]_vars

\* Both Handlers hold stats, different ones, and the first has an
\* entry for "b" that its latest record, without "b", left in place.
C14_Witness ==
    /\ other.n >= 1
    /\ NameA \in DOMAIN other.lengths
    /\ NameB \in DOMAIN lengths
    /\ NameB \notin DOMAIN other.lengths
    /\ sink.any
    /\ NameB \notin DOMAIN sink.e.Fields
    /\ NameA \in DOMAIN lengths
    /\ lengths[NameA] # other.lengths[NameA]

============================================================================
